---- MODULE Spec2Model ----
(***************************************************************************)
(* Model of the CaixaBank hackathon report tooling:                        *)
(*   src/src/agent/agent.py          extract_dates, create_pdf_report,     *)
(*                                   run_agent                             *)
(*   src/src/data/data_functions.py  earnings_and_expenses,                *)
(*                                   expenses_summary, cash_flow_summary   *)
(*                                                                         *)
(* Text is a sequence of one-character strings; the letter e-acute of the  *)
(* Spanish ordinals is written "E".  Dates are triples <<year, month,      *)
(* day>>.  Money is an integer number of thousandths of a currency unit    *)
(* before rounding and an integer number of hundredths after round(2).     *)
(***************************************************************************)
EXTENDS Integers, Sequences, FiniteSets, TLC

VARIABLES
  prompt,      \* the free-text request given to extract_dates / run_agent
  df,          \* the transactions table: a sequence of rows
  mcc_codes,   \* the category lookup loaded from data/raw/mcc_codes.json
  client_id,   \* the client id argument of run_agent
  fs,          \* the set of paths that exist on the filesystem
  pc,          \* position of the running call
  dates,       \* what extract_dates produced for the current call
  df_client,   \* run_agent's filtered table
  calls,       \* external services invoked by run_agent, in order
  ret          \* outcome of the last completed call

vars == <<prompt, df, mcc_codes, client_id, fs, pc, dates, df_client, calls, ret>>

----------------------------------------------------------------------------
(* Bounds of the model *)

\* longest prompt, in whitespace-separated tokens
MaxTokens == 2
\* most rows in the transactions table
MaxRows == 2

----------------------------------------------------------------------------
(* Text *)

Digits == {"0", "1", "2", "3", "4", "5", "6", "7", "8", "9"}

DigitSeq == <<"0", "1", "2", "3", "4", "5", "6", "7", "8", "9">>

\* int() of one decimal digit
DigitVal(c) == (CHOOSE i \in 1..10 : DigitSeq[i] = c) - 1

RECURSIVE ToInt(_)
\* int() of a string of decimal digits
ToInt(s) ==
  IF s = <<>> THEN 0
  ELSE 10 * ToInt(SubSeq(s, 1, Len(s) - 1)) + DigitVal(s[Len(s)])

AllDigits(s) == \A i \in 1..Len(s) : s[i] \in Digits

\* Python's `w in text` on strings
IsSubstring(w, text) ==
  \E i \in 1..(Len(text) - Len(w) + 1) : SubSeq(text, i, i + Len(w) - 1) = w

RECURSIVE Join(_)
\* tokens joined by single spaces
Join(ts) ==
  IF ts = <<>> THEN <<>>
  ELSE IF Len(ts) = 1 THEN ts[1]
  ELSE ts[1] \o <<" ">> \o Join(Tail(ts))

RECURSIVE Split(_)
\* the whitespace-separated words of a text
Split(text) ==
  IF text = <<>> THEN <<>>
  ELSE LET sp == {i \in 1..Len(text) : text[i] = " "}
       IN IF sp = {} THEN <<text>>
          ELSE LET i == CHOOSE j \in sp : \A k \in sp : j <= k
               IN (IF i = 1 THEN <<>> ELSE <<SubSeq(text, 1, i - 1)>>)
                  \o Split(SubSeq(text, i + 1, Len(text)))

----------------------------------------------------------------------------
(* Calendar: datetime.datetime *)

IsLeap(y) == (y % 4 = 0) /\ ((y % 100 # 0) \/ (y % 400 = 0))

DaysInMonth(y, m) ==
  IF m = 2 THEN (IF IsLeap(y) THEN 29 ELSE 28)
  ELSE IF m \in {4, 6, 9, 11} THEN 30 ELSE 31

\* datetime(year, month, day) raises ValueError outside these ranges
ValidDate(y, m, d) ==
  /\ y >= 1 /\ y <= 9999
  /\ m >= 1 /\ m <= 12
  /\ d >= 1 /\ d <= DaysInMonth(y, m)

RECURSIVE DaysBeforeMonth(_, _)
DaysBeforeMonth(y, m) ==
  IF m = 1 THEN 0 ELSE DaysBeforeMonth(y, m - 1) + DaysInMonth(y, m - 1)

\* date.toordinal(): days since 0001-01-01, that day being 1
ToOrdinal(dt) ==
  LET y == dt[1] - 1
  IN y * 365 + (y \div 4) - (y \div 100) + (y \div 400)
     + DaysBeforeMonth(dt[1], dt[2]) + dt[3]

\* date.weekday(): Monday is 0, Sunday is 6
Weekday(dt) == (ToOrdinal(dt) + 6) % 7

NextDay(dt) ==
  IF dt[3] < DaysInMonth(dt[1], dt[2]) THEN <<dt[1], dt[2], dt[3] + 1>>
  ELSE IF dt[2] < 12 THEN <<dt[1], dt[2] + 1, 1>>
  ELSE <<dt[1] + 1, 1, 1>>

RECURSIVE AddDays(_, _)
AddDays(dt, n) == IF n = 0 THEN dt ELSE AddDays(NextDay(dt), n - 1)

\* comparison of two dates (and of two zero-padded ISO date strings)
DateLeq(a, b) ==
  \/ a[1] < b[1]
  \/ a[1] = b[1] /\ a[2] < b[2]
  \/ a[1] = b[1] /\ a[2] = b[2] /\ a[3] <= b[3]

----------------------------------------------------------------------------
(* agent.py: extract_dates *)

\* the ordinal words of month_mapping
W_primer == <<"p", "r", "i", "m", "e", "r">>
W_first == <<"f", "i", "r", "s", "t">>
W_segundo == <<"s", "e", "g", "u", "n", "d", "o">>
W_second == <<"s", "e", "c", "o", "n", "d">>
W_tercer == <<"t", "e", "r", "c", "e", "r">>
W_third == <<"t", "h", "i", "r", "d">>
W_cuarto == <<"c", "u", "a", "r", "t", "o">>
W_fourth == <<"f", "o", "u", "r", "t", "h">>
W_quinto == <<"q", "u", "i", "n", "t", "o">>
W_fifth == <<"f", "i", "f", "t", "h">>
W_sexto == <<"s", "e", "x", "t", "o">>
W_sixth == <<"s", "i", "x", "t", "h">>
W_septimo == <<"s", "E", "p", "t", "i", "m", "o">>
W_seventh == <<"s", "e", "v", "e", "n", "t", "h">>
W_octavo == <<"o", "c", "t", "a", "v", "o">>
W_eighth == <<"e", "i", "g", "h", "t", "h">>
W_noveno == <<"n", "o", "v", "e", "n", "o">>
W_ninth == <<"n", "i", "n", "t", "h">>
W_decimo == <<"d", "E", "c", "i", "m", "o">>
W_tenth == <<"t", "e", "n", "t", "h">>
W_undecimo == <<"u", "n", "d", "E", "c", "i", "m", "o">>
W_eleventh == <<"e", "l", "e", "v", "e", "n", "t", "h">>
W_duodecimo == <<"d", "u", "o", "d", "E", "c", "i", "m", "o">>
W_twelfth == <<"t", "w", "e", "l", "f", "t", "h">>

month_mapping ==
  << [name |-> W_primer, num |-> 1],
     [name |-> W_first, num |-> 1],
     [name |-> W_segundo, num |-> 2],
     [name |-> W_second, num |-> 2],
     [name |-> W_tercer, num |-> 3],
     [name |-> W_third, num |-> 3],
     [name |-> W_cuarto, num |-> 4],
     [name |-> W_fourth, num |-> 4],
     [name |-> W_quinto, num |-> 5],
     [name |-> W_fifth, num |-> 5],
     [name |-> W_sexto, num |-> 6],
     [name |-> W_sixth, num |-> 6],
     [name |-> W_septimo, num |-> 7],
     [name |-> W_seventh, num |-> 7],
     [name |-> W_octavo, num |-> 8],
     [name |-> W_eighth, num |-> 8],
     [name |-> W_noveno, num |-> 9],
     [name |-> W_ninth, num |-> 9],
     [name |-> W_decimo, num |-> 10],
     [name |-> W_tenth, num |-> 10],
     [name |-> W_undecimo, num |-> 11],
     [name |-> W_eleventh, num |-> 11],
     [name |-> W_duodecimo, num |-> 12],
     [name |-> W_twelfth, num |-> 12] >>

\* other tokens a prompt may hold
T_mes == <<"m", "e", "s">>
T_primero == <<"p", "r", "i", "m", "e", "r", "o">>
T_2021 == <<"2", "0", "2", "1">>
T_2024 == <<"2", "0", "2", "4">>
T_0000 == <<"0", "0", "0", "0">>
T_2021_05_01 == <<"2", "0", "2", "1", "-", "0", "5", "-", "0", "1">>
T_2021_05_31 == <<"2", "0", "2", "1", "-", "0", "5", "-", "3", "1">>
T_2021_13_01 == <<"2", "0", "2", "1", "-", "1", "3", "-", "0", "1">>
T_2021_02_30 == <<"2", "0", "2", "1", "-", "0", "2", "-", "3", "0">>
T_2024_02_29 == <<"2", "0", "2", "4", "-", "0", "2", "-", "2", "9">>


NoDates == [kind |-> "none"]

ValueError == [kind |-> "ValueError"]

DatePair(s, e) == [kind |-> "pair", start |-> s, end |-> e]

\* the month words found in the prompt, as indices of the table
MonthHits(text) ==
  {i \in 1..Len(month_mapping) : IsSubstring(month_mapping[i].name, text)}

\* re.search(r"\d{4}", text): where the first run of four digits starts, 0 if none
YearMatch(text) ==
  LET at == {i \in 1..(Len(text) - 3) : AllDigits(SubSeq(text, i, i + 3))}
  IN IF at = {} THEN 0 ELSE CHOOSE i \in at : \A j \in at : i <= j

\* the pattern \d{4}-\d{2}-\d{2} matches at position i
DatePatternAt(text, i) ==
  /\ i + 9 <= Len(text)
  /\ AllDigits(SubSeq(text, i, i + 3))
  /\ text[i + 4] = "-"
  /\ AllDigits(SubSeq(text, i + 5, i + 6))
  /\ text[i + 7] = "-"
  /\ AllDigits(SubSeq(text, i + 8, i + 9))

RECURSIVE FindAllFrom(_, _)
FindAllFrom(text, i) ==
  IF i + 9 > Len(text) THEN <<>>
  ELSE IF DatePatternAt(text, i)
       THEN <<SubSeq(text, i, i + 9)>> \o FindAllFrom(text, i + 10)
       ELSE FindAllFrom(text, i + 1)

\* re.findall(date_pattern, text): the non-overlapping matches, left to right
FindAllDates(text) == FindAllFrom(text, 1)

\* datetime.strptime(s, "%Y-%m-%d") of a string the pattern matched
StrpTime(s) ==
  LET y == ToInt(SubSeq(s, 1, 4))
      m == ToInt(SubSeq(s, 6, 7))
      d == ToInt(SubSeq(s, 9, 10))
  IN IF ValidDate(y, m, d) THEN [ok |-> TRUE, date |-> <<y, m, d>>]
     ELSE [ok |-> FALSE]

\* the last day the ordinal-month rule assigns to a month
EndDay(month_num) ==
  IF month_num = 2 THEN 28
  ELSE IF month_num \in {4, 6, 9, 11} THEN 30
  ELSE 31

\* faulty variant of OrdinalPair: the two dates exchanged
OrdinalPairSwapped(year, month_num) ==
  DatePair(<<year, month_num, EndDay(month_num)>>, <<year, month_num, 1>>)

\* start_date and end_date of the ordinal-month rule
OrdinalPair(year, month_num) ==
  DatePair(<<year, month_num, 1>>, <<year, month_num, EndDay(month_num)>>)

\* the ordinal-month rule applies: a month word and four digits are present
OrdinalApplies(text) == MonthHits(text) # {} /\ YearMatch(text) # 0

ExtractDates(text) ==
  IF OrdinalApplies(text)
  THEN LET hits == MonthHits(text)
           first == CHOOSE i \in hits : \A j \in hits : i <= j
           month_num == month_mapping[first].num
           at == YearMatch(text)
           year == ToInt(SubSeq(text, at, at + 3))
       IN IF ValidDate(year, month_num, 1) THEN OrdinalPair(year, month_num)
          ELSE ValueError
  ELSE LET found == FindAllDates(text)
       IN IF Len(found) = 2
          THEN LET s == StrpTime(found[1])
                   e == StrpTime(found[2])
               IN IF ~s.ok THEN ValueError
                  ELSE IF ~e.ok THEN ValueError
                  ELSE DatePair(s.date, e.date)
          ELSE NoDates

----------------------------------------------------------------------------
(* data_functions.py: helpers shared by the three aggregators *)

RECURSIVE SumSeq(_)
SumSeq(s) == IF s = <<>> THEN 0 ELSE s[1] + SumSeq(Tail(s))

Abs(x) == IF x < 0 THEN -x ELSE x

RECURSIVE Pow10(_)
Pow10(n) == IF n = 0 THEN 1 ELSE 10 * Pow10(n - 1)

NaN == [nan |-> TRUE]

Num(v) == [nan |-> FALSE, v |-> v]

\* Series.str.replace('$', '', regex=False)
StripDollar(s) == SelectSeq(s, LAMBDA c : c # "$")

\* pd.to_numeric(errors='coerce') of a decimal literal with at most three
\* decimals, in thousandths; anything else is coerced to NaN
ToNumeric(s) ==
  LET neg  == s # <<>> /\ s[1] = "-"
      body == IF neg THEN Tail(s) ELSE s
      dots == {i \in 1..Len(body) : body[i] = "."}
      dot  == IF dots = {} THEN Len(body) + 1 ELSE CHOOSE i \in dots : TRUE
      int  == SubSeq(body, 1, dot - 1)
      frac == SubSeq(body, dot + 1, Len(body))
  IN IF /\ Cardinality(dots) <= 1
        /\ AllDigits(int) /\ AllDigits(frac)
        /\ Len(int) + Len(frac) >= 1
        /\ Len(frac) <= 3
     THEN Num((IF neg THEN -1 ELSE 1)
              * (ToInt(int) * 1000 + ToInt(frac) * Pow10(3 - Len(frac))))
     ELSE NaN

\* the amount column after the '$' is removed and the text is made numeric
Amount(row) == ToNumeric(StripDollar(row.amount))

\* round half to even of the fraction num / den, den > 0
RoundHalfEven(num, den) ==
  LET q == num \div den
      r == num - q * den
  IN IF 2 * r < den THEN q
     ELSE IF 2 * r > den THEN q + 1
     ELSE IF q % 2 = 0 THEN q ELSE q + 1

\* .round(2): thousandths to hundredths
Round2(milli) == RoundHalfEven(milli, 10)

\* (df["client_id"] == client_id) & (df["date"] >= start) & (df["date"] <= end)
InRange(row, client, start_date, end_date) ==
  /\ row.client_id = client
  /\ DateLeq(start_date, row.date)
  /\ DateLeq(row.date, end_date)

RECURSIVE TupleLess(_, _)
\* order of two labels of equal length (zero-padded strings sort alike)
TupleLess(a, b) ==
  IF a = <<>> THEN FALSE
  ELSE IF a[1] # b[1] THEN a[1] < b[1]
  ELSE TupleLess(Tail(a), Tail(b))

RECURSIVE SortLabels(_)
\* the group keys in ascending order
SortLabels(S) ==
  IF S = {} THEN <<>>
  ELSE LET m == CHOOSE x \in S : \A y \in S : ~TupleLess(y, x)
       IN <<m>> \o SortLabels(S \ {m})

FiguresDir == [type |-> "dir", name |-> "reports/figures"]

ReportsDir == [type |-> "dir", name |-> "reports"]

EarningsPng == [type |-> "file", name |-> "reports/figures/earnings_and_expenses.png"]

ExpensesPng == [type |-> "file", name |-> "reports/figures/expenses_summary.png"]

\* plt.savefig(path) needs the parent directory to exist
CanSaveFig(files) == FiguresDir \in files

\* os.makedirs('reports/figures', exist_ok=True)
MakeFiguresDir(files) == files \cup {ReportsDir, FiguresDir}

----------------------------------------------------------------------------
(* data_functions.py: cash_flow_summary *)

\* the period length above which buckets are months
MonthlyThreshold == 60

\* period_days = (end_date - start_date).days
PeriodDays(start_date, end_date) == ToOrdinal(end_date) - ToOrdinal(start_date)

\* faulty variant of IsMonthly: the boundary day counted as monthly
IsMonthlyAtLeast(period_days) == period_days >= MonthlyThreshold

\* if period_days > 60: group by month
IsMonthly(period_days) == period_days > MonthlyThreshold

\* dt.to_period('W').dt.end_time: the Sunday that ends the row's calendar week
WeekEnd(dt) == AddDays(dt, 6 - Weekday(dt))

\* the value the date column is replaced by before grouping
BucketLabel(dt, period_days) ==
  IF IsMonthly(period_days) THEN <<dt[1], dt[2]>> ELSE WeekEnd(dt)

\* x.loc[x['amount'] >= 0, 'amount'].sum()
Inflows(group) ==
  SumSeq([i \in 1..Len(group) |->
            LET a == Amount(group[i])
            IN IF ~a.nan /\ a.v >= 0 THEN a.v ELSE 0])

\* x.loc[x['amount'] < 0, 'amount'].abs().sum()
Outflows(group) ==
  SumSeq([i \in 1..Len(group) |->
            LET a == Amount(group[i])
            IN IF ~a.nan /\ a.v < 0 THEN Abs(a.v) ELSE 0])

\* faulty variant of NetCashFlow: the outflows added
NetCashFlowAdded(inflows, outflows) == inflows + outflows

\* summary['Net Cash Flow'] = summary['Inflows'] - summary['Outflows']
NetCashFlow(inflows, outflows) == inflows - outflows

NegInf == [k |-> "-inf"]

Finite(v) == [k |-> "num", v |-> v]

\* (net / inflows).fillna(0) * 100, then .round(2): hundredths of a percent.
\* Float division by zero gives NaN for 0/0, which fillna replaces, and
\* -inf for a negative net, which it does not.
PctSavings(net, inflows) ==
  IF inflows # 0 THEN Finite(RoundHalfEven(net * 10000, inflows))
  ELSE IF net = 0 THEN Finite(0)
  ELSE NegInf

CashFlowRow(label, group) ==
  LET inflows  == Inflows(group)
      outflows == Outflows(group)
      net      == NetCashFlow(inflows, outflows)
  IN [Date     |-> label,
      Inflows  |-> Round2(inflows),
      Outflows |-> Round2(outflows),
      Net      |-> Round2(net),
      Savings  |-> PctSavings(net, inflows)]

CashFlowFiltered(table, client, start_date, end_date) ==
  SelectSeq(table, LAMBDA row : InRange(row, client, start_date, end_date))

\* the rows of the returned table, sorted by Date
CashFlowRows(table, client, start_date, end_date) ==
  LET filtered == CashFlowFiltered(table, client, start_date, end_date)
      days     == PeriodDays(start_date, end_date)
      labels   == {BucketLabel(filtered[i].date, days) : i \in 1..Len(filtered)}
      sorted   == SortLabels(labels)
  IN [j \in 1..Len(sorted) |->
        CashFlowRow(sorted[j],
                    SelectSeq(filtered,
                              LAMBDA row : BucketLabel(row.date, days) = sorted[j]))]

----------------------------------------------------------------------------
(* data_functions.py: earnings_and_expenses *)

\* df["amount"].apply(lambda x: x if x > 0 else 0), rounded to 2 decimals
EarningsOf(row) ==
  LET a == Amount(row) IN IF ~a.nan /\ a.v > 0 THEN Round2(a.v) ELSE 0

\* df["amount"].apply(lambda x: x if x < 0 else 0), rounded to 2 decimals
ExpensesOf(row) ==
  LET a == Amount(row) IN IF ~a.nan /\ a.v < 0 THEN Round2(a.v) ELSE 0

\* the single row of totals, in hundredths
EarningsAndExpensesRow(table, client, start_date, end_date) ==
  LET filtered == SelectSeq(table, LAMBDA row : InRange(row, client, start_date, end_date))
  IN [Earnings |-> SumSeq([i \in 1..Len(filtered) |-> EarningsOf(filtered[i])]),
      Expenses |-> SumSeq([i \in 1..Len(filtered) |-> ExpensesOf(filtered[i])])]

----------------------------------------------------------------------------
(* data_functions.py: expenses_summary *)

\* code points, in order, of the characters that occur in category names
CharOrder ==
  << " ", "$", "-", ".", "/", "0", "1", "2", "3", "4", "5", "6", "7", "8", "9", "A",
     "B", "C", "D", "E", "F", "G", "H", "I", "J", "K", "L", "M", "N", "O", "P", "Q",
     "R", "S", "T", "U", "V", "W", "X", "Y", "Z", "a", "b", "c", "d", "e", "f", "g",
     "h", "i", "j", "k", "l", "m", "n", "o", "p", "q", "r", "s", "t", "u", "v", "w",
     "x", "y", "z" >>

CharCode(c) == CHOOSE i \in 1..Len(CharOrder) : CharOrder[i] = c

RECURSIVE StrLess(_, _)
\* Python's < on strings
StrLess(a, b) ==
  IF b = <<>> THEN FALSE
  ELSE IF a = <<>> THEN TRUE
  ELSE IF a[1] # b[1] THEN CharCode(a[1]) < CharCode(b[1])
  ELSE StrLess(Tail(a), Tail(b))

RECURSIVE SortNames(_)
\* summary.sort_values('Expenses Type')
SortNames(S) ==
  IF S = {} THEN <<>>
  ELSE LET m == CHOOSE x \in S : \A y \in S : ~StrLess(y, x)
       IN <<m>> \o SortNames(S \ {m})

RECURSIVE IntToStr(_)
\* astype(str) of an integer category code
IntToStr(n) ==
  IF n < 10 THEN <<DigitSeq[n + 1]>>
  ELSE IntToStr(n \div 10) \o <<DigitSeq[(n % 10) + 1]>>

\* the rows kept by the client / date / amount < 0 mask
ExpenseFiltered(table, client, start_date, end_date) ==
  SelectSeq(table, LAMBDA row : /\ InRange(row, client, start_date, end_date)
                                /\ ~Amount(row).nan
                                /\ Amount(row).v < 0)

\* filtered_df['mcc'].map(mcc_codes) finds a name for the row
Mapped(row, codes) == IntToStr(row.mcc) \in DOMAIN codes

ExpenseType(row, codes) == codes[IntToStr(row.mcc)]

MinOf(S) == CHOOSE x \in S : \A y \in S : x <= y

MaxOf(S) == CHOOSE x \in S : \A y \in S : x >= y

ExpenseRow(name, group) ==
  LET amounts == [i \in 1..Len(group) |-> Amount(group[i]).v]
      values  == {amounts[i] : i \in 1..Len(group)}
  IN [Type    |-> name,
      Total   |-> Abs(Round2(SumSeq(amounts))),
      Average |-> Abs(RoundHalfEven(SumSeq(amounts), 10 * Len(group))),
      Max     |-> Abs(Round2(MaxOf(values))),
      Min     |-> Abs(Round2(MinOf(values))),
      Count   |-> Len(group)]

\* groupby('Expenses Type') leaves out the rows whose key is null
ExpensesSummaryRows(table, codes, client, start_date, end_date) ==
  LET filtered == ExpenseFiltered(table, client, start_date, end_date)
      keyed    == SelectSeq(filtered, LAMBDA row : Mapped(row, codes))
      names    == {ExpenseType(keyed[i], codes) : i \in 1..Len(keyed)}
      sorted   == SortNames(names)
  IN [j \in 1..Len(sorted) |->
        ExpenseRow(sorted[j],
                   SelectSeq(keyed, LAMBDA row : ExpenseType(row, codes) = sorted[j]))]

----------------------------------------------------------------------------
(* Inputs of the aggregators *)

Row(c, d, a, m) == [client_id |-> c, date |-> d, amount |-> a, mcc |-> m]

\* amount strings: "$1.004", "-$0.996", "-$40", "$10.50", "$0.00", "n/a", "-$12.5"
A_1_004 == <<"$", "1", ".", "0", "0", "4">>

A_m0_996 == <<"-", "$", "0", ".", "9", "9", "6">>

A_m40 == <<"-", "$", "4", "0">>

A_10_50 == <<"$", "1", "0", ".", "5", "0">>

A_0 == <<"$", "0", ".", "0", "0">>

A_na == <<"n", "/", "a">>

A_m12_5 == <<"-", "$", "1", "2", ".", "5">>

\* keys and display names of the category lookup
Name_Eating == <<"E", "a", "t", "i", "n", "g", " ", "P", "l", "a", "c", "e", "s">>

Name_Grocery == <<"G", "r", "o", "c", "e", "r", "y", " ", "S", "t", "o", "r", "e", "s">>

Name_Misc == <<"M", "i", "s", "c", "e", "l", "l", "a", "n", "e", "o", "u", "s">>

K_5411 == <<"5", "4", "1", "1">>

K_5812 == <<"5", "8", "1", "2">>

K_9999 == <<"9", "9", "9", "9">>

MccTables ==
  { (K_5411 :> Name_Grocery) @@ (K_5812 :> Name_Eating),
    (K_5411 :> Name_Grocery) @@ (K_5812 :> Name_Eating) @@ (K_9999 :> Name_Misc) }

Tables(rows) == UNION {[1..k -> rows] : k \in 0..MaxRows}

Args(c, s, e) == [client_id |-> c, start_date |-> s, end_date |-> e]

NoCall == [fn |-> "none"]

Unfiltered == [done |-> FALSE, rows |-> <<>>]

\* rows of the cash-flow checks: a Sunday, the Monday after it, a day in June
CashRows ==
  { Row(1, d, a, 5411) :
      d \in {<<2021, 5, 2>>, <<2021, 5, 3>>, <<2021, 6, 20>>},
      a \in {A_1_004, A_m0_996, A_m40, A_10_50, A_na} }
  \cup { Row(2, <<2021, 5, 3>>, A_10_50, 5411) }

\* ranges of 30, 60 and 61 days, and one whose end precedes its start
CashRanges ==
  { <<<<2021, 5, 1>>, <<2021, 5, 31>>>>,
    <<<<2021, 5, 1>>, <<2021, 6, 30>>>>,
    <<<<2021, 5, 1>>, <<2021, 7, 1>>>>,
    <<<<2021, 6, 1>>, <<2021, 5, 1>>>> }

ReportRows ==
  { Row(1, d, a, m) :
      d \in {<<2021, 5, 2>>, <<2021, 6, 20>>},
      a \in {A_m40, A_10_50, A_m12_5},
      m \in {5411, 9999} }
  \cup { Row(2, <<2021, 5, 2>>, A_m40, 5411) }

ReportRanges ==
  { <<<<2021, 5, 1>>, <<2021, 5, 31>>>>,
    <<<<2021, 5, 1>>, <<2021, 7, 1>>>> }

----------------------------------------------------------------------------
(* The aggregators as operations *)

\* cash_flow_summary(df, client_id, start_date, end_date).  With no row in
\* range groupby().apply() yields a frame without the computed columns, and
\* what follows depends on the pandas release: both outcomes are allowed.
CashFlowSummary ==
  /\ pc = "idle"
  /\ \E c \in {1, 2}, r \in CashRanges, onEmpty \in {"KeyError", "ok"} :
       LET rows == CashFlowRows(df, c, r[1], r[2])
       IN ret' = [fn     |-> "cash_flow_summary",
                  args   |-> Args(c, r[1], r[2]),
                  status |-> IF rows = <<>> THEN onEmpty ELSE "ok",
                  rows   |-> rows]
  /\ UNCHANGED <<prompt, df, mcc_codes, client_id, fs, pc, dates, df_client, calls>>

\* earnings_and_expenses(df, client_id, start_date, end_date)
EarningsAndExpenses ==
  /\ pc = "idle"
  /\ \E c \in {1, 2}, r \in ReportRanges :
       IF CanSaveFig(fs)
       THEN /\ fs' = fs \cup {EarningsPng}
            /\ ret' = [fn     |-> "earnings_and_expenses",
                       args   |-> Args(c, r[1], r[2]),
                       status |-> "ok",
                       rows   |-> <<EarningsAndExpensesRow(df, c, r[1], r[2])>>]
       ELSE /\ fs' = fs
            /\ ret' = [fn     |-> "earnings_and_expenses",
                       args   |-> Args(c, r[1], r[2]),
                       status |-> "FileNotFoundError",
                       rows   |-> <<>>]
  /\ UNCHANGED <<prompt, df, mcc_codes, client_id, pc, dates, df_client, calls>>

\* expenses_summary(df, client_id, start_date, end_date)
ExpensesSummary ==
  /\ pc = "idle"
  /\ \E c \in {1, 2}, r \in ReportRanges :
       /\ fs' = MakeFiguresDir(fs) \cup {ExpensesPng}
       /\ ret' = [fn     |-> "expenses_summary",
                  args   |-> Args(c, r[1], r[2]),
                  status |-> "ok",
                  rows   |-> ExpensesSummaryRows(df, mcc_codes, c, r[1], r[2])]
  /\ UNCHANGED <<prompt, df, mcc_codes, client_id, pc, dates, df_client, calls>>

InitCash ==
  /\ df \in Tables(CashRows)
  /\ mcc_codes = (K_5411 :> Name_Grocery)
  /\ fs = {}
  /\ prompt = <<>> /\ client_id = 1 /\ pc = "idle" /\ dates = NoDates
  /\ df_client = Unfiltered /\ calls = <<>> /\ ret = NoCall

\* cash_flow_summary called on any table, any number of times
SpecCash == InitCash /\ [][CashFlowSummary]_vars

InitReports ==
  /\ df \in Tables(ReportRows)
  /\ mcc_codes \in MccTables
  /\ fs \in {{}, {ReportsDir}, {ReportsDir, FiguresDir}}
  /\ prompt = <<>> /\ client_id = 1 /\ pc = "idle" /\ dates = NoDates
  /\ df_client = Unfiltered /\ calls = <<>> /\ ret = NoCall

NextReports == EarningsAndExpenses \/ ExpensesSummary \/ CashFlowSummary

\* the three aggregators called in any order on any filesystem
SpecReports == InitReports /\ [][NextReports]_vars

----------------------------------------------------------------------------
(* agent.py: extract_dates called on its own *)

\* every token a prompt of the date-extraction checks may hold
Vocab ==
  {month_mapping[i].name : i \in 1..Len(month_mapping)}
  \cup {T_mes, T_primero, T_2021, T_2024, T_0000,
        T_2021_05_01, T_2021_05_31, T_2021_13_01, T_2021_02_30, T_2024_02_29}

TokenSeqs(V) == UNION {[1..k -> V] : k \in 0..MaxTokens}

Prompts(V) == {Join(ts) : ts \in TokenSeqs(V)}

\* extract_dates(prompt): a pair, (None, None), or an uncaught ValueError
ExtractDatesCall ==
  /\ pc = "extract"
  /\ dates' = ExtractDates(prompt)
  /\ pc' = "extracted"
  /\ UNCHANGED <<prompt, df, mcc_codes, client_id, fs, df_client, calls, ret>>

InitDates ==
  /\ prompt \in Prompts(Vocab)
  /\ pc = "extract" /\ dates = NoDates
  /\ df = <<>> /\ mcc_codes = (K_5411 :> Name_Grocery) /\ client_id = 1 /\ fs = {}
  /\ df_client = Unfiltered /\ calls = <<>> /\ ret = NoCall

\* extract_dates applied to every prompt of at most MaxTokens tokens
SpecDates == InitDates /\ [][ExtractDatesCall]_vars

----------------------------------------------------------------------------
(* agent.py: create_pdf_report and run_agent *)

\* reports/reporte_cliente_{client_id}_{start:%Y%m%d}_{end:%Y%m%d}.pdf
PdfPath(client, start_date, end_date) ==
  [type |-> "pdf", client |-> client, start |-> start_date, end |-> end_date]

PdfFiles(files) == {f \in files : f.type = "pdf"}

\* faulty variant of DatesInvalid: the check left out
DatesAlwaysValid(d) == FALSE

\* if not start_date or not end_date
DatesInvalid(d) == d.kind = "none"

\* faulty variant of FilterClient: the date range ignored
FilterByClientOnly(table, client, start_date, end_date) ==
  SelectSeq(table, LAMBDA row : row.client_id = client)

\* df[(client_id == client_id) & (date >= start_date) & (date <= end_date)]
FilterClient(table, client, start_date, end_date) ==
  SelectSeq(table, LAMBDA row : InRange(row, client, start_date, end_date))

\* create_report = not df_client.empty
CreateReport(filtered) == filtered.rows # <<>>

\* lines 100-105: build the chat model, extract the dates, reject a prompt
\* without dates; an exception raised inside extract_dates passes through
AgentExtract ==
  /\ pc = "run_agent"
  /\ dates' = ExtractDates(prompt)
  /\ IF dates'.kind = "ValueError"
     THEN /\ pc' = "raised"
          /\ ret' = [fn |-> "run_agent", status |-> "ValueError",
                     message |-> "extract_dates"]
     ELSE IF DatesInvalid(dates')
     THEN /\ pc' = "raised"
          /\ ret' = [fn |-> "run_agent", status |-> "ValueError",
                     message |-> "Fechas no validas en el prompt."]
     ELSE /\ pc' = "filter"
          /\ ret' = ret
  /\ UNCHANGED <<prompt, df, mcc_codes, client_id, fs, df_client, calls>>

\* lines 107-114: filter the table, decide whether a report is due
AgentFilter ==
  /\ pc = "filter"
  /\ dates.kind = "pair"
  /\ df_client' = [done |-> TRUE,
                   rows |-> FilterClient(df, client_id, dates.start, dates.end)]
  /\ pc' = IF CreateReport(df_client') THEN "predict" ELSE "return"
  /\ UNCHANGED <<prompt, df, mcc_codes, client_id, fs, dates, calls, ret>>

\* lines 116-127: model.predict(prompt); the service may fail
AgentPredict ==
  /\ pc = "predict"
  /\ calls' = Append(calls, "predict")
  /\ \E ok \in BOOLEAN :
       IF ok THEN pc' = "create_pdf" /\ ret' = ret
       ELSE /\ pc' = "raised"
            /\ ret' = [fn |-> "run_agent", status |-> "ServiceError",
                       message |-> "model.predict"]
  /\ UNCHANGED <<prompt, df, mcc_codes, client_id, fs, dates, df_client>>

\* lines 130-131 and create_pdf_report: lay the text out, create reports/ if
\* it is missing, write the file; laying out and writing may each fail
AgentCreatePdf ==
  /\ pc = "create_pdf"
  /\ calls' = Append(calls, "create_pdf_report")
  /\ \E outcome \in {"ok", "layout_failed", "output_failed"} :
       IF outcome = "ok"
       THEN /\ fs' = fs \cup {ReportsDir, PdfPath(client_id, dates.start, dates.end)}
            /\ pc' = "return"
            /\ ret' = ret
       ELSE /\ fs' = IF outcome = "output_failed" THEN fs \cup {ReportsDir} ELSE fs
            /\ pc' = "raised"
            /\ ret' = [fn |-> "run_agent", status |-> "PdfError",
                       message |-> outcome]
  /\ UNCHANGED <<prompt, df, mcc_codes, client_id, dates, df_client>>

\* lines 133-141: the result record
AgentReturn ==
  /\ pc = "return"
  /\ ret' = [fn |-> "run_agent", status |-> "ok",
             record |-> [start_date    |-> dates.start,
                         end_date      |-> dates.end,
                         client_id     |-> client_id,
                         create_report |-> CreateReport(df_client)]]
  /\ pc' = "returned"
  /\ UNCHANGED <<prompt, df, mcc_codes, client_id, fs, dates, df_client, calls>>

\* tokens of the prompts given to run_agent
AgentVocab ==
  {W_segundo, T_mes, T_2021, T_0000, T_2021_05_01, T_2021_05_31, T_2021_13_01}

AgentRows ==
  { Row(c, d, A_10_50, 5411) :
      c \in {1, 2}, d \in {<<2021, 2, 10>>, <<2021, 5, 31>>} }

InitAgent ==
  /\ prompt \in Prompts(AgentVocab)
  /\ df \in Tables(AgentRows)
  /\ client_id \in {1, 2}
  /\ fs \in {{}, {ReportsDir}}
  /\ mcc_codes = (K_5411 :> Name_Grocery)
  /\ pc = "run_agent" /\ dates = NoDates
  /\ df_client = Unfiltered /\ calls = <<>> /\ ret = NoCall

NextAgent ==
  AgentExtract \/ AgentFilter \/ AgentPredict \/ AgentCreatePdf \/ AgentReturn

\* one call of run_agent, on any prompt, table, client and reports folder
SpecAgent == InitAgent /\ [][NextAgent]_vars

\* the default specification is the report orchestrator
Spec == SpecAgent

----------------------------------------------------------------------------
(* Properties of cash_flow_summary, checked under SpecCash *)

CashReturned == ret.fn = "cash_flow_summary" /\ ret.status = "ok"

\* the rows of df the call's client / date mask keeps
CallRows ==
  {i \in 1..Len(df) :
     /\ df[i].client_id = ret.args.client_id
     /\ DateLeq(ret.args.start_date, df[i].date)
     /\ DateLeq(df[i].date, ret.args.end_date)}

\* C1: in every returned row whose Inflows is 0 the '% Savings' is 0, also
\* when the row's Outflows is positive.
C1_ZeroInflowsZeroSavings ==
  CashReturned =>
    \A i \in 1..Len(ret.rows) :
      ret.rows[i].Inflows = 0 => ret.rows[i].Savings = Finite(0)

\* C2 as stated: in every returned row the rounded Net Cash Flow is exactly
\* the rounded Inflows minus the rounded Outflows, whatever the amounts.
C2_NetEqualsRoundedDifference ==
  CashReturned =>
    \A i \in 1..Len(ret.rows) :
      ret.rows[i].Net = ret.rows[i].Inflows - ret.rows[i].Outflows

\* every amount the call aggregates has at most two decimals (or is not a number)
CallAmountsTwoDecimals ==
  \A i \in CallRows : Amount(df[i]).nan \/ Amount(df[i]).v % 10 = 0

\* C2 as amended: the returned Net Cash Flow is Inflows - Outflows rounded
\* once, after the subtraction; it is within one hundredth of the rounded
\* Inflows minus the rounded Outflows, and equal to it whenever every
\* aggregated amount has at most two decimals.
C2_NetWithinOneCent ==
  CashReturned =>
    \A i \in 1..Len(ret.rows) :
      LET d == ret.rows[i].Net - (ret.rows[i].Inflows - ret.rows[i].Outflows)
      IN /\ d \in {-1, 0, 1}
         /\ CallAmountsTwoDecimals => d = 0

\* a returned bucket with money in and out, all in two decimals, whose net
\* is the difference of the two columns
C2_Witness ==
  /\ CashReturned
  /\ CallAmountsTwoDecimals
  /\ \E i \in 1..Len(ret.rows) :
       /\ ret.rows[i].Inflows = 1050
       /\ ret.rows[i].Outflows = 4000
       /\ ret.rows[i].Net = -2950

\* C8: the labels of a returned table are months exactly when end - start is
\* more than 60 days, and week-ending Sundays otherwise; a range of exactly
\* 60 days is weekly and one of 61 days is monthly.
C8_GranularityByPeriodDays ==
  CashReturned =>
    LET s == ret.args.start_date
        e == ret.args.end_date
        monthly == \A i \in 1..Len(ret.rows) : Len(ret.rows[i].Date) = 2
        weekly  == \A i \in 1..Len(ret.rows) :
                     /\ Len(ret.rows[i].Date) = 3
                     /\ Weekday(ret.rows[i].Date) = 6
    IN /\ ret.rows # <<>> =>
            (monthly <=> ToOrdinal(e) - ToOrdinal(s) > 60)
       /\ ret.rows # <<>> =>
            (weekly <=> ToOrdinal(e) - ToOrdinal(s) <= 60)
       /\ (s = <<2021, 5, 1>> /\ e = <<2021, 6, 30>>) => weekly
       /\ (s = <<2021, 5, 1>> /\ e = <<2021, 7, 1>>) => monthly

\* a 60-day range answered with the Sunday that ends the week of Monday 3 May
C8_Witness ==
  /\ CashReturned
  /\ ret.args.start_date = <<2021, 5, 1>>
  /\ ret.args.end_date = <<2021, 6, 30>>
  /\ \E i \in 1..Len(ret.rows) : ret.rows[i].Date = <<2021, 5, 9>>
  /\ \E i \in 1..Len(df) : df[i].date = <<2021, 5, 3>> /\ df[i].client_id = ret.args.client_id

----------------------------------------------------------------------------
(* Properties of the aggregators' side effects, checked under SpecReports *)

\* C3: every row that passes the client / date / amount < 0 filter is counted
\* in exactly one output row of expenses_summary, unmapped codes included:
\* the 'Num. Transactions' of the output add up to the number of such rows.
C3_EveryExpenseCounted ==
  ret.fn = "expenses_summary" =>
    SumSeq([j \in 1..Len(ret.rows) |-> ret.rows[j].Count])
      = Cardinality({i \in CallRows : ~Amount(df[i]).nan /\ Amount(df[i]).v < 0})

\* C9: a call of earnings_and_expenses completes, returns its single row and
\* leaves reports/figures/earnings_and_expenses.png behind, whatever the
\* filesystem held and whichever aggregators ran before it.
C9_EarningsChartPersisted ==
  ret.fn = "earnings_and_expenses" =>
    /\ ret.status = "ok"
    /\ Len(ret.rows) = 1
    /\ EarningsPng \in fs

----------------------------------------------------------------------------
(* Properties of extract_dates, checked under SpecDates *)

Extracted == pc = "extracted"

\* C4 as stated: every pair extract_dates returns has start <= end.
C4_StartNotAfterEnd ==
  (Extracted /\ dates.kind = "pair") => DateLeq(dates.start, dates.end)

\* the words of the prompt that have the shape YYYY-MM-DD
IsoWords ==
  SelectSeq(Split(prompt), LAMBDA t : Len(t) = 10 /\ DatePatternAt(t, 1))

WordDate(t) ==
  <<ToInt(SubSeq(t, 1, 4)), ToInt(SubSeq(t, 6, 7)), ToInt(SubSeq(t, 9, 10))>>

\* C4 as amended: a pair produced by the ordinal-month rule has start <= end;
\* a pair produced by the ISO date-pair rule is the first and the second date
\* of the text in source order, so it has start <= end exactly when the text
\* names the earlier date first.
C4_OrderedUnlessIsoReversed ==
  (Extracted /\ dates.kind = "pair") =>
    IF OrdinalApplies(prompt)
    THEN DateLeq(dates.start, dates.end)
    ELSE /\ Len(IsoWords) = 2
         /\ dates.start = WordDate(IsoWords[1])
         /\ dates.end = WordDate(IsoWords[2])
         /\ DateLeq(dates.start, dates.end)
              <=> DateLeq(WordDate(IsoWords[1]), WordDate(IsoWords[2]))

\* "segundo 2021" is answered with February 2021, first day to 28th
C4_Witness ==
  /\ Extracted
  /\ prompt = Join(<<W_segundo, T_2021>>)
  /\ dates = DatePair(<<2021, 2, 1>>, <<2021, 2, 28>>)

\* C5: extract_dates always ends with a pair of dates or with (None, None),
\* never with an exception, also on digits that name no calendar date.
C5_ExtractDatesTotal ==
  Extracted => dates.kind \in {"pair", "none"}

TableWords == {month_mapping[i].name : i \in 1..Len(month_mapping)}

\* the 4-digit words of the prompt that are valid years
YearWords ==
  {ToInt(t) : t \in {w \in {Split(prompt)[k] : k \in 1..Len(Split(prompt))} :
                       Len(w) = 4 /\ AllDigits(w) /\ ToInt(w) >= 1}}

\* C10: when the only table word among the words of the text is w, and the
\* text holds a valid 4-digit year Y, the result is Y-M-01 to the fixed last
\* day of month M, M being the month the table gives w.
C10_OrdinalWordSelectsItsMonth ==
  Extracted =>
    \A i \in 1..Len(month_mapping) :
      LET w     == month_mapping[i].name
          M     == month_mapping[i].num
          words == {Split(prompt)[k] : k \in 1..Len(Split(prompt))}
          last  == IF M = 2 THEN 28 ELSE IF M \in {4, 6, 9, 11} THEN 30 ELSE 31
      IN (words \cap TableWords = {w} /\ YearWords # {}) =>
           \E Y \in YearWords : dates = DatePair(<<Y, M, 1>>, <<Y, M, last>>)

----------------------------------------------------------------------------
(* Properties of run_agent, checked under SpecAgent *)

\* C6: when run_agent returns a record, create_report is true exactly when
\* some row of the table has the client id and a date in the inclusive
\* extracted range; if it is true the text service and then the PDF writer
\* were each invoked once and the PDF exists, and if it is false neither was
\* invoked and no PDF was written.
C6_ReportIffData ==
  pc = "returned" =>
    LET rec == ret.record
        some == \E i \in 1..Len(df) :
                  /\ df[i].client_id = client_id
                  /\ DateLeq(dates.start, df[i].date)
                  /\ DateLeq(df[i].date, dates.end)
    IN /\ ret.status = "ok"
       /\ rec.create_report <=> some
       /\ rec.create_report =>
            /\ calls = <<"predict", "create_pdf_report">>
            /\ PdfPath(client_id, dates.start, dates.end) \in fs
       /\ ~rec.create_report => (calls = <<>> /\ PdfFiles(fs) = {})

\* a returned record with a report: both services ran, in order
C6_Witness ==
  /\ pc = "returned"
  /\ ret.record.create_report
  /\ calls = <<"predict", "create_pdf_report">>
  /\ PdfFiles(fs) # {}

\* C7: when extract_dates finds no dates run_agent ends with the validation
\* error and no record; the table was not filtered, the text service was not
\* called and no PDF was written.
C7_NoDatesRaisesValidationError ==
  (pc # "run_agent" /\ dates.kind = "none") =>
    /\ pc = "raised"
    /\ ret.fn = "run_agent"
    /\ ret.status = "ValueError"
    /\ ret.message = "Fechas no validas en el prompt."
    /\ df_client = Unfiltered
    /\ calls = <<>>
    /\ PdfFiles(fs) = {}

\* a prompt without dates, rejected, with rows of the client in the table
C7_Witness ==
  /\ pc = "raised"
  /\ dates.kind = "none"
  /\ prompt = Join(<<T_mes>>)
  /\ \E i \in 1..Len(df) : df[i].client_id = client_id
====
